---- MODULE Spec2Model ----
(***************************************************************************)
(* A model of android-hacks/jbt.py: the gdb command that reconstructs the  *)
(* Java stack traces of a Dalvik VM from the memory of a core file.        *)
(*                                                                         *)
(* The inspected memory is the read-only part of the state (gDvm,          *)
(* threadMem, saveAreaMem, ...), drawn in Init.  The program part is the   *)
(* position of the jbt command in AllThreadsStackTrace.__str__ and         *)
(* ThreadStackTrace.__str__ together with the strings they build.          *)
(***************************************************************************)
EXTENDS Integers, Sequences, FiniteSets, TLC

(***************************************************************************)
(* Bounds of the model.                                                    *)
(***************************************************************************)
NumThreads == 2      \* struct Thread nodes in the inspected memory
MaxDepth == 2        \* distinct frames on the walked thread's stack
MaxRegs == 1         \* largest registersSize of a method
MaxStrLen == 2       \* longest backing char array of a StringObject
NumMonitors == 2     \* struct Monitor records in the inspected memory

(***************************************************************************)
(* Program constants.                                                      *)
(***************************************************************************)
LW_SHAPE_MASK == 1
LW_SHAPE_THIN == 0
LW_LOCK_OWNER_MASK == 65535
LW_LOCK_OWNER_SHIFT == 3
LW_HASH_STATE_MASK == 3
LW_HASH_STATE_SHIFT == 1
OP_MONITOR_ENTER == 29          \* 0x1d
OPCODE_MASK == 255              \* 0xff
OPCODE_SHIFT == 8
OBJECT_ALIGN_MASK == 7
BOM_NATIVE == 65279             \* 0xFEFF: the byte order mark, in host order
BOM_SWAPPED == 65534            \* 0xFFFE: the byte order mark, bytes swapped
WORD_MAX == 2147483647          \* lock words are modelled with bit 31 clear

statusList == <<"ZOMBIE", "RUNNABLE", "TIMED_WAIT", "MONITOR", "WAIT",
                "INITIALIZING", "STARTING", "NATIVE", "VMWAIT", "SUSPENDED">>

VARIABLES
    \* ---- the inspected memory (never written) ----
    gDvm,          \* [threadList, classJavaLangVMThread, classJavaLangClass]
    threadMem,     \* struct Thread, by address
    saveAreaMem,   \* struct StackSaveArea, by address (frame pointer - 1)
    methodMem,     \* struct Method, by address
    frameRegs,     \* the u4 register slots of a frame, by frame pointer
    objectMem,     \* struct Object (clazz, lock and the vmData field), by address
    monitorMem,    \* struct Monitor, by address
    stringMem,     \* StringObject fields count, offset, value, by address
    arrayMem,      \* ArrayObject length and u2 contents, by address
    \* ---- the jbt command ----
    pc,            \* "start", "loop", "walk", "done", "raised"
    mode,          \* "all" (AllThreadsStackTrace) or "one" (ThreadStackTrace)
    thread_addr,   \* AllThreadsStackTrace.__str__: the list cursor
    allS,          \* AllThreadsStackTrace.__str__: s, as a sequence of lines
    self_thread,   \* ThreadStackTrace._thread, an address
    jfp,           \* ThreadStackTrace.__str__: the frame pointer
    first,         \* ThreadStackTrace.__str__: first
    s,             \* ThreadStackTrace.__str__: s, as a sequence of lines
    printed,       \* what the print statement of invoke wrote
    err,           \* the exception that left invoke, "" when none
    \* ---- what the command has read and called so far ----
    regReads,      \* <<frame pointer, slot>> pairs read by jfp.cast(u4)[reg]
    lockReads,     \* addresses of the objects whose lock word was read
    decodeCalls,   \* threads _extractMonitorEnterObject was called for
    \* ---- direct calls of the Dvm helpers ----
    callArg,       \* the argument of the last helper call
    callRes,       \* its result
    unitReads      \* array indices dereferenced by createCstrFromString

memVars == <<gDvm, threadMem, saveAreaMem, methodMem, frameRegs, objectMem,
             monitorMem, stringMem, arrayMem>>
cmdVars == <<pc, mode, thread_addr, allS, self_thread, jfp, first, s, printed, err>>
logVars == <<regReads, lockReads, decodeCalls>>
callVars == <<callArg, callRes, unitReads>>
vars == <<memVars, cmdVars, logVars, callVars>>

(***************************************************************************)
(* Bit operations on non-negative machine words.                           *)
(***************************************************************************)
RECURSIVE BitAnd(_, _)
BitAnd(a, b) ==
    IF a = 0 \/ b = 0 THEN 0
    ELSE (a % 2) * (b % 2) + 2 * BitAnd(a \div 2, b \div 2)

RECURSIVE BitOr(_, _)
BitOr(a, b) ==
    IF a = 0 THEN b
    ELSE IF b = 0 THEN a
    ELSE (IF a % 2 = 1 \/ b % 2 = 1 THEN 1 ELSE 0) + 2 * BitOr(a \div 2, b \div 2)

ShiftR(a, n) == a \div (2 ^ n)
ShiftL(a, n) == a * (2 ^ n)
BitNot(a) == WORD_MAX - a

(***************************************************************************)
(* Addresses.  0 is the null pointer everywhere.  Objects and monitors are  *)
(* 8-aligned; OddRef is a misaligned value found in a register slot.        *)
(***************************************************************************)
ThreadAddrs == 1 .. NumThreads
FramePtrs == 1 .. (MaxDepth + NumThreads)    \* the walked stack, then one frame per other thread
SaveAreaAddrs == 0 .. (MaxDepth + NumThreads - 1)
MethodAddrs == FramePtrs                     \* one struct Method per frame
RegSlots == 0 .. (MaxRegs + 1)
ObjAddrs == {8}
OddRef == {12}
MonAddrs == {8 * m : m \in 1 .. NumMonitors}
ClassAddrs == {1, 2, 3}
StrAddrs == ThreadAddrs
MaxLines == MaxDepth + 3                     \* lines of one thread block the model keeps

(***************************************************************************)
(* Dvm._lockOwner (jbt.py 85-97).                                          *)
(***************************************************************************)
monitorAddrOfLock(lock) ==
    BitAnd(lock, BitNot(BitOr(ShiftL(LW_HASH_STATE_MASK, LW_HASH_STATE_SHIFT),
                              LW_SHAPE_MASK)))

\* lockOwner with the owner field of a thin lock left unmasked.
lockOwnerUnmasked(obj) ==
    LET lock == objectMem[obj].lock IN
    IF BitAnd(lock, LW_SHAPE_MASK) = LW_SHAPE_THIN
    THEN ShiftR(lock, LW_LOCK_OWNER_SHIFT)
    ELSE LET owner == monitorMem[monitorAddrOfLock(lock)].owner IN
         IF owner # 0 THEN threadMem[owner].threadId ELSE 0

lockOwner(obj) ==
    LET lock == objectMem[obj].lock IN
    IF BitAnd(lock, LW_SHAPE_MASK) = LW_SHAPE_THIN
    THEN BitAnd(ShiftR(lock, LW_LOCK_OWNER_SHIFT), LW_LOCK_OWNER_MASK)
    ELSE LET owner == monitorMem[monitorAddrOfLock(lock)].owner IN
         IF owner # 0 THEN threadMem[owner].threadId ELSE 0

(***************************************************************************)
(* Dvm.getThreadbyThreadId (99-108) and Dvm.getObjectLockHolder (110-116). *)
(* The result is a thread address, 0 for None.                             *)
(***************************************************************************)
\* threadByIdFrom that keeps searching and returns the last match.
RECURSIVE threadByIdLast(_, _)
threadByIdLast(addr, threadId) ==
    IF addr = 0 THEN 0
    ELSE LET later == threadByIdLast(threadMem[addr].next, threadId) IN
         IF later # 0 THEN later
         ELSE IF threadMem[addr].threadId = threadId THEN addr ELSE 0

RECURSIVE threadByIdFrom(_, _)
threadByIdFrom(addr, threadId) ==
    IF addr = 0 THEN 0
    ELSE IF threadMem[addr].threadId = threadId THEN addr
    ELSE threadByIdFrom(threadMem[addr].next, threadId)

getThreadbyThreadId(threadId) == threadByIdFrom(gDvm.threadList, threadId)

getObjectLockHolder(obj) ==
    LET threadId == lockOwner(obj) IN
    IF threadId # 0 THEN getThreadbyThreadId(threadId) ELSE 0

(***************************************************************************)
(* Dvm.createCstrFromString (118-134).  struct.pack('H', u) writes each    *)
(* code unit in host byte order and str.decode("utf-16") reads the result:  *)
(* a leading byte order mark is consumed and chooses the byte order of the  *)
(* rest, and an unpaired surrogate raises UnicodeDecodeError.               *)
(***************************************************************************)
ByteSwap(u) == (u % 256) * 256 + (u \div 256)
IsHighSurrogate(u) == u >= 55296 /\ u <= 56319
IsLowSurrogate(u) == u >= 56320 /\ u <= 57343

\* The code points of a sequence of code units, [ok |-> FALSE] on an unpaired surrogate.
RECURSIVE DecodeUnits(_)
DecodeUnits(units) ==
    IF units = <<>> THEN [ok |-> TRUE, text |-> <<>>]
    ELSE IF IsHighSurrogate(units[1])
    THEN IF Len(units) >= 2 /\ IsLowSurrogate(units[2])
         THEN LET rest == DecodeUnits(Tail(Tail(units))) IN
              IF rest.ok
              THEN [ok |-> TRUE,
                    text |-> <<65536 + (units[1] - 55296) * 1024 + (units[2] - 56320)>>
                             \o rest.text]
              ELSE rest
         ELSE [ok |-> FALSE, text |-> <<>>]
    ELSE IF IsLowSurrogate(units[1]) THEN [ok |-> FALSE, text |-> <<>>]
    ELSE LET rest == DecodeUnits(Tail(units)) IN
         IF rest.ok THEN [ok |-> TRUE, text |-> <<units[1]>> \o rest.text] ELSE rest

Utf16Decode(units) ==
    IF units = <<>> THEN [ok |-> TRUE, text |-> <<>>]
    ELSE IF units[1] = BOM_NATIVE THEN DecodeUnits(Tail(units))
    ELSE IF units[1] = BOM_SWAPPED
    THEN DecodeUnits([i \in 1 .. (Len(units) - 1) |-> ByteSwap(units[i + 1])])
    ELSE DecodeUnits(units)

\* [error, text, reads]: error is "" on return; reads are the array indices dereferenced.
createCstrFromString(str) ==
    IF str = 0 THEN [error |-> "", text |-> <<>>, reads |-> {}]
    ELSE LET length == stringMem[str].count
             offset == stringMem[str].offset
             chars == arrayMem[stringMem[str].value]
         IN IF ~(offset + length <= chars.length)
            THEN [error |-> "AssertionError", text |-> <<>>, reads |-> {}]
            ELSE LET utf16_list == [i \in 1 .. length |-> chars.contents[offset + i]]
                     decoded == Utf16Decode(utf16_list)
                     reads == {offset + i : i \in 0 .. (length - 1)}
                 IN IF decoded.ok
                    THEN [error |-> "", text |-> decoded.text, reads |-> reads]
                    ELSE [error |-> "UnicodeDecodeError", text |-> <<>>, reads |-> reads]

(***************************************************************************)
(* Dvm.humanReadableDescriptor (136-143) and Dvm.humanReadableType         *)
(* (146-149).  A descriptor is a sequence of characters.                   *)
(***************************************************************************)
humanReadableDescriptor(desc) ==
    LET stripped == SubSeq(desc, 1, Len(desc) - 1)
        out == IF stripped[1] = "L" THEN Tail(stripped) ELSE stripped
    IN [i \in 1 .. Len(out) |-> IF out[i] = "/" THEN "." ELSE out[i]]

classDescriptor(clazz) ==
    IF clazz = gDvm.classJavaLangVMThread
    THEN <<"L", "j", "/", "V", "M", "T", ";">>
    ELSE IF clazz = gDvm.classJavaLangClass
    THEN <<"L", "j", "/", "C", ";">>
    ELSE <<"L", "c", "/", "L", "o", "c", "k", ";">>

humanReadableType(obj) ==
    IF objectMem[obj].clazz = 0 THEN <<"(", "r", "a", "w", ")">>
    ELSE humanReadableDescriptor(classDescriptor(objectMem[obj].clazz))

(***************************************************************************)
(* class Thread (154-192).                                                 *)
(***************************************************************************)
threadName(thread) == createCstrFromString(threadMem[thread].name)

threadStatus(thread) ==
    LET status == threadMem[thread].status IN
    IF status < 0 \/ status >= Len(statusList) THEN "UNKNOWN"
    ELSE statusList[status + 1]

curFrame(thread) == threadMem[thread].curFrame

\* Dvm.threadFromThreadObject (151-152): Thread(vmData); Thread.__init__ asserts
\* a non-null address.
threadFromThreadObject(obj) ==
    LET addr == objectMem[obj].vmData IN
    IF addr = 0 THEN [error |-> "AssertionError", thread |-> 0]
    ELSE [error |-> "", thread |-> addr]

(***************************************************************************)
(* class ThreadStackTrace (194-291).  A line of the report is a record;    *)
(* the model keeps the first MaxLines lines of a thread block.              *)
(***************************************************************************)
AppendLines(str, lines) ==
    IF Len(str) + Len(lines) <= MaxLines THEN str \o lines
    ELSE SubSeq(str \o lines, 1, MaxLines)

\* _waitMessage (198-206): thread is an address, 0 for None.
waitMessage(detail, obj, thread) ==
    LET typed == obj # 0 /\ objectMem[obj].clazz # gDvm.classJavaLangClass
        name == IF thread # 0 THEN threadName(thread)
                ELSE [error |-> "", text |-> <<>>, reads |-> {}]
    IN [error |-> name.error,
        line |-> [kind |-> "waiting", detail |-> detail, obj |-> obj,
                  type |-> IF typed THEN humanReadableType(obj) ELSE <<>>,
                  held |-> thread # 0,
                  tid |-> IF thread # 0 THEN threadMem[thread].threadId ELSE 0,
                  name |-> name.text]]

\* _saveareaFromFP (208-210)
saveareaFromFP(frame_ptr) == frame_ptr - 1

\* The register index check of _extractMonitorEnterObject (223).
invalidRegister(reg, registersSize) == reg > registersSize

\* _extractMonitorEnterObject (212-232)
extractMonitorEnterObject(thread) ==
    LET fp == curFrame(thread)
        saveArea == saveAreaMem[saveareaFromFP(fp)]
        method == saveArea.method
        currentPc == saveArea.currentPc
        reg == ShiftR(currentPc, OPCODE_SHIFT)
        obj == frameRegs[fp][reg]
        none == [error |-> "", obj |-> 0, owner |-> 0, regs |-> {}, locks |-> {}]
    IN IF BitAnd(currentPc, OPCODE_MASK) # OP_MONITOR_ENTER
       THEN [none EXCEPT !.error = "wrong currentPc value"]
       ELSE IF invalidRegister(reg, methodMem[method].registersSize)
       THEN [none EXCEPT !.error = "invalid register"]
       ELSE IF obj = 0 \/ BitAnd(obj, OBJECT_ALIGN_MASK) # 0
       THEN [none EXCEPT !.error = "invalid object", !.regs = {<<fp, reg>>}]
       ELSE [error |-> "", obj |-> obj, owner |-> getObjectLockHolder(obj),
             regs |-> {<<fp, reg>>}, locks |-> {obj}]

\* The header of a thread block (236-248).
headerOf(thread) ==
    LET name == threadName(thread) IN
    [error |-> name.error,
     line |-> [kind |-> "header", name |-> name.text,
               tid |-> threadMem[thread].threadId, status |-> threadStatus(thread),
               self |-> thread]]

\* joinThreadOf comparing with the wrong class global.
joinThreadOfWrongClass(obj) ==
    IF objectMem[obj].clazz = gDvm.classJavaLangClass
    THEN threadFromThreadObject(obj)
    ELSE [error |-> "", thread |-> 0]

\* The joined thread of a waited-on object (277-279).
joinThreadOf(obj) ==
    IF objectMem[obj].clazz = gDvm.classJavaLangVMThread
    THEN threadFromThreadObject(obj)
    ELSE [error |-> "", thread |-> 0]

\* The lock annotation of the first frame line (271-283).
noAnnotation == [error |-> "", lines |-> <<>>, regs |-> {}, locks |-> {}, decoded |-> {}]

annotationOf(thread) ==
    IF threadStatus(thread) = "WAIT" \/ threadStatus(thread) = "TIMED_WAIT"
    THEN LET mon == threadMem[thread].waitMonitor IN
         IF mon = 0 THEN noAnnotation
         ELSE LET obj == monitorMem[mon].obj IN
              IF obj = 0 THEN noAnnotation
              ELSE LET join == joinThreadOf(obj)
                       msg == waitMessage("on", obj, join.thread)
                   IN IF join.error # "" THEN [noAnnotation EXCEPT !.error = join.error]
                      ELSE IF msg.error # "" THEN [noAnnotation EXCEPT !.error = msg.error]
                      ELSE [noAnnotation EXCEPT !.lines = <<msg.line>>]
    ELSE IF threadStatus(thread) = "MONITOR"
    THEN LET ex == extractMonitorEnterObject(thread)
             msg == waitMessage("to lock", ex.obj, ex.owner)
         IN IF ex.error # ""
            THEN [error |-> ex.error, lines |-> <<>>, regs |-> ex.regs,
                  locks |-> ex.locks, decoded |-> {thread}]
            ELSE [error |-> msg.error,
                  lines |-> IF msg.error = "" THEN <<msg.line>> ELSE <<>>,
                  regs |-> ex.regs, locks |-> ex.locks, decoded |-> {thread}]
    ELSE noAnnotation

\* annotate with first never cleared.
annotateAlways(isFirst, thread) == annotationOf(thread)

\* "Print 'wait' lock info for first line of stack trace" (270-271, 285).
annotate(isFirst, thread) == IF isFirst THEN annotationOf(thread) ELSE noAnnotation

(***************************************************************************)
(* The jbt command (320-338), one action per step.                         *)
(***************************************************************************)
\* ThreadStackTrace(addr).__str__ up to its while loop (195-196, 236-250).
EnterThread(addr) ==
    IF addr = 0
    THEN /\ pc' = "raised"
         /\ err' = "AssertionError"
         /\ UNCHANGED <<self_thread, jfp, first, s>>
    ELSE LET h == headerOf(addr) IN
         IF h.error # ""
         THEN /\ pc' = "raised"
              /\ err' = h.error
              /\ self_thread' = addr
              /\ UNCHANGED <<jfp, first, s>>
         ELSE /\ pc' = "walk"
              /\ self_thread' = addr
              /\ jfp' = curFrame(addr)
              /\ first' = TRUE
              /\ s' = <<h.line>>
              /\ err' = ""

\* jbt with no argument: print AllThreadsStackTrace() (336-338, 295-296).
InvokeAll ==
    /\ pc = "start"
    /\ pc' = "loop"
    /\ mode' = "all"
    /\ thread_addr' = gDvm.threadList
    /\ allS' = <<>>
    /\ UNCHANGED <<self_thread, jfp, first, s, printed, err>>
    /\ UNCHANGED <<memVars, logVars, callVars>>

\* jbt <thread>: print ThreadStackTrace(addr) (333-334).
InvokeOne ==
    /\ pc = "start"
    /\ \E addr \in ThreadAddrs \cup {0} :
          /\ mode' = "one"
          /\ EnterThread(addr)
    /\ UNCHANGED <<thread_addr, allS, printed>>
    /\ UNCHANGED <<memVars, logVars, callVars>>

\* The loop of AllThreadsStackTrace.__str__ entering a thread (297-299).
BeginThread ==
    /\ pc = "loop"
    /\ thread_addr # 0
    /\ EnterThread(thread_addr)
    /\ UNCHANGED <<mode, thread_addr, allS, printed>>
    /\ UNCHANGED <<memVars, logVars, callVars>>

\* One iteration of the while loop of ThreadStackTrace.__str__ (251-289).  A
\* frame line is kept as its method; its "(Native method)" or "(sourceFile)"
\* suffix (259-267) never changes the control flow and is left out.
WalkFrame ==
    /\ pc = "walk"
    /\ jfp # 0
    /\ LET saveArea == saveAreaMem[saveareaFromFP(jfp)]
           jmethodp == saveArea.method
           ann == annotate(first, self_thread)
       IN IF jmethodp # 0
          THEN IF ann.error # ""
               THEN /\ pc' = "raised"
                    /\ err' = ann.error
                    /\ UNCHANGED <<jfp, first, s>>
                    /\ regReads' = regReads \cup ann.regs
                    /\ lockReads' = lockReads \cup ann.locks
                    /\ decodeCalls' = decodeCalls \cup ann.decoded
               ELSE /\ s' = AppendLines(s, <<[kind |-> "at", method |-> jmethodp]>>
                                           \o ann.lines)
                    /\ first' = FALSE
                    /\ jfp' = saveArea.prevFrame
                    /\ regReads' = regReads \cup ann.regs
                    /\ lockReads' = lockReads \cup ann.locks
                    /\ decodeCalls' = decodeCalls \cup ann.decoded
                    /\ UNCHANGED <<pc, err>>
          ELSE /\ jfp' = 0
               /\ UNCHANGED <<pc, err, first, s, logVars>>
    /\ UNCHANGED <<mode, thread_addr, allS, self_thread, printed>>
    /\ UNCHANGED <<memVars, callVars>>

\* ThreadStackTrace.__str__ returns s (291); its caller appends or prints it
\* (299-301, 334).
ReturnThread ==
    /\ pc = "walk"
    /\ jfp = 0
    /\ IF mode = "all"
       THEN /\ allS' = allS \o s \o <<[kind |-> "blank"]>>
            /\ thread_addr' = threadMem[thread_addr].next
            /\ pc' = "loop"
            /\ UNCHANGED printed
       ELSE /\ printed' = s
            /\ pc' = "done"
            /\ UNCHANGED <<allS, thread_addr>>
    /\ UNCHANGED <<mode, self_thread, jfp, first, s, err>>
    /\ UNCHANGED <<memVars, logVars, callVars>>

\* AllThreadsStackTrace.__str__ returns s and invoke prints it (303, 336-338).
ReturnAll ==
    /\ pc = "loop"
    /\ thread_addr = 0
    /\ printed' = allS
    /\ pc' = "done"
    /\ UNCHANGED <<mode, thread_addr, allS, self_thread, jfp, first, s, err>>
    /\ UNCHANGED <<memVars, logVars, callVars>>

(***************************************************************************)
(* Direct calls of the Dvm helpers (the functions of jbt.py 85-134).       *)
(***************************************************************************)
LockOwnerCall ==
    /\ callArg = -1
    /\ \E obj \in ObjAddrs :
          /\ callArg' = obj
          /\ callRes' = [tid |-> lockOwner(obj)]
    /\ UNCHANGED <<unitReads, memVars, cmdVars, logVars>>

CreateCstrCall ==
    /\ callArg = -1
    /\ \E str \in {0, 1} :
          LET r == createCstrFromString(str) IN
          /\ callArg' = str
          /\ callRes' = [error |-> r.error, text |-> r.text]
          /\ unitReads' = r.reads
    /\ UNCHANGED <<memVars, cmdVars, logVars>>

(***************************************************************************)
(* The inspected memory.  One thread of the list, the subject, has any     *)
(* status, any stack and any lock or wait data; the others are RUNNABLE    *)
(* with a one-frame stack.  A stack walked from curFrame is a path of      *)
(* distinct frames that ends in a null link or links back into itself, so   *)
(* it is given by its depth n, its last link tail and the frame nullAt      *)
(* whose save area holds a null method (0: none).                          *)
(***************************************************************************)
Shapes ==
    {[n |-> n, tail |-> tl, nullAt |-> na] :
        n \in 0 .. MaxDepth, tl \in 0 .. MaxDepth, na \in 0 .. MaxDepth}

WellFormedShape(sh) == sh.tail <= sh.n /\ sh.nullAt <= sh.n

BaseCfg ==
    [status |-> 1, waitMonitor |-> 0, monObj |-> 0, clazz |-> 3, vmData |-> 0,
     currentPc |-> 0, registersSize |-> 0, slotVal |-> 0, lock |-> 0, fatOwner |-> 0]

\* RUNNABLE, and a raw status outside statusList.
PlainCfgs == {[BaseCfg EXCEPT !.status = st] : st \in {1, 10}}

\* TIMED_WAIT (2) and WAIT (4): no monitor, a monitor without object, an object
\* of no class, of java.lang.Class, of another class, and a VMThread with any vmData.
WaitCfgs ==
    UNION {
        {[BaseCfg EXCEPT !.status = st]}
        \cup {[BaseCfg EXCEPT !.status = st, !.waitMonitor = 8]}
        \cup {[BaseCfg EXCEPT !.status = st, !.waitMonitor = 8, !.monObj = 8, !.clazz = c] :
                 c \in {0, 2, 3}}
        \cup {[BaseCfg EXCEPT !.status = st, !.waitMonitor = 8, !.monObj = 8, !.clazz = 1,
                              !.vmData = v] : v \in 0 .. NumThreads}
        : st \in {2, 4}}

\* Lock words of the object found in the register: thin with any owner id,
\* or fat on any monitor with any owner.
ThinLocks == {ShiftL(tid, LW_LOCK_OWNER_SHIFT) : tid \in 0 .. (NumThreads + 1)}
FatLocks == {m + 1 : m \in MonAddrs}

\* MONITOR (3): a wrong opcode; and for every register index and registersSize,
\* a null, a misaligned or a valid object reference in the register, the
\* object's lock thin or fat.  Past registersSize one valid object is enough.
MonitorCfg(reg, rs, v, lw, o) ==
    [BaseCfg EXCEPT !.status = 3,
                    !.currentPc = OP_MONITOR_ENTER + ShiftL(reg, OPCODE_SHIFT),
                    !.registersSize = rs, !.slotVal = v, !.lock = lw, !.fatOwner = o]

\* The (register index, registersSize) pairs whose slot the code reads.
ReadPairs == {p \in RegSlots \X (0 .. MaxRegs) : ~(p[1] > p[2])}

MonitorCfgs ==
    {[BaseCfg EXCEPT !.status = 3, !.currentPc = OP_MONITOR_ENTER + 1,
                     !.registersSize = MaxRegs]}
    \cup {MonitorCfg(p[1], p[2], v, 0, 0) :
             p \in ReadPairs, v \in {0} \cup OddRef}
    \cup {MonitorCfg(p[1], p[2], 8, lw, 0) :
             p \in ReadPairs, lw \in ThinLocks}
    \cup {MonitorCfg(p[1], p[2], 8, lw, o) :
             p \in ReadPairs, lw \in FatLocks, o \in 0 .. NumThreads}
    \cup {MonitorCfg(reg, rs, 8, 8, 0) : reg \in RegSlots, rs \in 0 .. MaxRegs}

SubjectCfgs == PlainCfgs \cup WaitCfgs \cup MonitorCfgs

\* Thread ids: all different, or all the same.
IdSchemes == {[t \in ThreadAddrs |-> t], [t \in ThreadAddrs |-> 1]}

ThreadsOf(sub, sh, cfg, ids) ==
    [t \in ThreadAddrs |->
        [threadId |-> ids[t],
         status |-> IF t = sub THEN cfg.status ELSE 1,
         next |-> IF t < NumThreads THEN t + 1 ELSE 0,
         curFrame |-> IF t = sub THEN (IF sh.n = 0 THEN 0 ELSE 1) ELSE MaxDepth + t,
         waitMonitor |-> IF t = sub THEN cfg.waitMonitor ELSE 0,
         name |-> t]]

SaveAreasOf(sh, cfg) ==
    [a \in SaveAreaAddrs |->
        LET fp == a + 1 IN
        IF fp <= sh.n
        THEN [method |-> IF fp = sh.nullAt THEN 0 ELSE fp,
              prevFrame |-> IF fp < sh.n THEN fp + 1 ELSE sh.tail,
              currentPc |-> cfg.currentPc]
        ELSE IF fp <= MaxDepth
        THEN [method |-> 0, prevFrame |-> 0, currentPc |-> 0]
        ELSE [method |-> fp, prevFrame |-> 0, currentPc |-> 0]]

RegsOf(cfg) ==
    [fp \in FramePtrs |->
        [r \in RegSlots |->
            IF fp = 1 /\ r = ShiftR(cfg.currentPc, OPCODE_SHIFT) THEN cfg.slotVal ELSE 0]]

MonitorsOf(cfg) ==
    [m \in MonAddrs |->
        [owner |-> IF cfg.lock = m + 1 THEN cfg.fatOwner ELSE 0,
         obj |-> IF m = cfg.waitMonitor THEN cfg.monObj ELSE 0]]

NamesOf == [a \in StrAddrs |-> [count |-> 1, offset |-> 0, value |-> a]]
NameArraysOf == [a \in StrAddrs |-> [length |-> 1, contents |-> <<64 + a>>]]

ThreadAndStackMemoryIs(sub, sh, cfg, ids) ==
    /\ gDvm = [threadList |-> 1, classJavaLangVMThread |-> 1, classJavaLangClass |-> 2]
    /\ threadMem = ThreadsOf(sub, sh, cfg, ids)
    /\ saveAreaMem = SaveAreasOf(sh, cfg)
    /\ methodMem = [m \in MethodAddrs |-> [registersSize |-> cfg.registersSize]]
    /\ frameRegs = RegsOf(cfg)

ObjectMemoryIs(cfg) ==
    /\ objectMem = [o \in ObjAddrs |->
                       [clazz |-> cfg.clazz, lock |-> cfg.lock, vmData |-> cfg.vmData]]
    /\ monitorMem = MonitorsOf(cfg)

MemoryIs(sub, sh, cfg, ids) ==
    /\ ThreadAndStackMemoryIs(sub, sh, cfg, ids)
    /\ ObjectMemoryIs(cfg)
    /\ stringMem = NamesOf
    /\ arrayMem = NameArraysOf

CommandIdle ==
    /\ pc = "start"
    /\ mode = "none"
    /\ thread_addr = 0
    /\ allS = <<>>
    /\ self_thread = 0
    /\ jfp = 0
    /\ first = FALSE
    /\ s = <<>>
    /\ printed = <<>>
    /\ err = ""
    /\ regReads = {}
    /\ lockReads = {}
    /\ decodeCalls = {}
    /\ callArg = -1
    /\ callRes = [tid |-> 0]
    /\ unitReads = {}

Init ==
    /\ \E sub \in ThreadAddrs, sh \in Shapes, cfg \in SubjectCfgs, ids \in IdSchemes :
          /\ WellFormedShape(sh)
          /\ MemoryIs(sub, sh, cfg, ids)
    /\ CommandIdle

Next == InvokeAll \/ InvokeOne \/ BeginThread \/ WalkFrame \/ ReturnThread \/ ReturnAll

Spec == Init /\ [][Next]_vars

\* The command over threads that are RUNNABLE, of unknown status or blocked in
\* MONITOR: every way _extractMonitorEnterObject can end, over every stack.
InitMonitor ==
    /\ \E sub \in ThreadAddrs, sh \in Shapes, cfg \in PlainCfgs \cup MonitorCfgs,
          ids \in IdSchemes :
          /\ WellFormedShape(sh)
          /\ MemoryIs(sub, sh, cfg, ids)
    /\ CommandIdle

SpecMonitor == InitMonitor /\ [][Next]_vars

\* The walk on its own: threads that are RUNNABLE, of unknown status or waiting,
\* over every stack.  (A frame linked to itself is left to Init: walking it
\* repeats one state of the model, the kept prefix of s being full.)
InitWalk ==
    /\ \E sub \in ThreadAddrs, sh \in Shapes, cfg \in PlainCfgs \cup WaitCfgs :
          /\ WellFormedShape(sh)
          /\ ~(sh.n > 0 /\ sh.tail = sh.n)
          /\ MemoryIs(sub, sh, cfg, [t \in ThreadAddrs |-> t])
    /\ CommandIdle

\* invoke runs to its end: no step of the command waits for anything.
FairSpec == InitWalk /\ [][Next]_vars /\ WF_vars(Next)

(***************************************************************************)
(* Dvm._lockOwner called on every lock word: thin with any hash state,     *)
(* owner field and count field, fat on any monitor with any hash state;    *)
(* every monitor has any owner.                                            *)
(***************************************************************************)
LockWords ==
    {2 * h + ShiftL(o, LW_LOCK_OWNER_SHIFT) + ShiftL(c, LW_LOCK_OWNER_SHIFT + 16) :
        h \in 0 .. 3, o \in (0 .. (NumThreads + 1)) \cup {LW_LOCK_OWNER_MASK}, c \in 0 .. 1}
    \cup {m + 2 * h + 1 : m \in MonAddrs, h \in 0 .. 3}

OneFrame == [n |-> 1, tail |-> 0, nullAt |-> 0]

InitLock ==
    /\ \E lw \in LockWords, owners \in [MonAddrs -> 0 .. NumThreads], ids \in IdSchemes :
          /\ ThreadAndStackMemoryIs(1, OneFrame, BaseCfg, ids)
          /\ objectMem = [o \in ObjAddrs |-> [clazz |-> 3, lock |-> lw, vmData |-> 0]]
          /\ monitorMem = [m \in MonAddrs |-> [owner |-> owners[m], obj |-> 0]]
          /\ stringMem = NamesOf
          /\ arrayMem = NameArraysOf
    /\ CommandIdle

NextLock == LockOwnerCall

SpecLock == InitLock /\ [][NextLock]_vars

(***************************************************************************)
(* Dvm.createCstrFromString called on a null reference and on a            *)
(* StringObject with any count and offset over any backing array.          *)
(***************************************************************************)
CodeUnits == {65, BOM_NATIVE, BOM_SWAPPED, 55357, 56832}
CharArrays == UNION {[1 .. k -> CodeUnits] : k \in 0 .. MaxStrLen}

InitStr ==
    /\ \E count \in 0 .. (MaxStrLen + 1), offset \in 0 .. (MaxStrLen + 1),
          contents \in CharArrays :
          /\ ThreadAndStackMemoryIs(1, OneFrame, BaseCfg, [t \in ThreadAddrs |-> t])
          /\ ObjectMemoryIs(BaseCfg)
          /\ stringMem = [a \in StrAddrs |->
                             IF a = 1 THEN [count |-> count, offset |-> offset, value |-> 1]
                             ELSE NamesOf[a]]
          /\ arrayMem = [a \in StrAddrs |->
                            IF a = 1 THEN [length |-> Len(contents), contents |-> contents]
                            ELSE NameArraysOf[a]]
    /\ CommandIdle

NextStr == CreateCstrCall

SpecStr == InitStr /\ [][NextStr]_vars

(***************************************************************************)
(* What the lock word layout says about a word, by arithmetic: bit 0 is    *)
(* the shape, bits 1-2 the hash state, bits 3-18 of a thin word the owner  *)
(* id, a fat word less its low three bits the address of its monitor.      *)
(***************************************************************************)
IsFatWord(w) == w % 2 = 1
MonitorOfWord(w) == w - (w % 8)
OwnerIdOfWord(w) ==
    IF ~IsFatWord(w) THEN (w \div 8) % 65536
    ELSE IF monitorMem[MonitorOfWord(w)].owner = 0 THEN 0
    ELSE threadMem[monitorMem[MonitorOfWord(w)].owner].threadId

\* C4: Dvm._lockOwner returns (word >> 3) & 0xffff for a thin lock word whatever
\* its hash-state bits, and for a fat one the threadId of the owner of the monitor
\* at the word less its bits 0..2, 0 when that monitor has no owner; fat words
\* that differ only in the hash-state bits give the same monitor address.
C4_LockOwnerDecoded ==
    callArg # -1 =>
        LET w == objectMem[callArg].lock IN
        /\ callRes.tid = OwnerIdOfWord(w)
        /\ IsFatWord(w) =>
              \A h \in 0 .. 3 :
                 monitorAddrOfLock(MonitorOfWord(w) + 2 * h + 1) = MonitorOfWord(w)

\* A fat lock word with hash-state bits set, whose monitor has an owner, was decoded;
\* so was a thin one with hash-state and count bits set.
C4_Witness ==
    /\ callArg # -1
    /\ LET w == objectMem[callArg].lock IN
       /\ IsFatWord(w)
       /\ (w \div 2) % 4 = 3
       /\ monitorMem[MonitorOfWord(w)].owner = 2
       /\ callRes.tid = threadMem[2].threadId

(***************************************************************************)
(* createCstrFromString against the text of the code units of the string.  *)
(***************************************************************************)
UnitsOfString(str) ==
    LET st == stringMem[str] IN
    [i \in 1 .. st.count |-> arrayMem[st.value].contents[st.offset + i]]

InBounds(str) ==
    stringMem[str].offset + stringMem[str].count <= arrayMem[stringMem[str].value].length

\* C5: createCstrFromString returns exactly the text of the code units at
\* [offset, offset+length) when offset + length <= the array length, and otherwise
\* fails with a bounds error, returns no text and reads no code unit.  (Stated
\* here for code units that are well-formed UTF-16 only: an unpaired surrogate
\* has no text to compare with.)
C5_StringDecoded ==
    (callArg # -1 /\ callArg # 0) =>
        IF InBounds(callArg)
        THEN DecodeUnits(UnitsOfString(callArg)).ok =>
                /\ callRes.error = ""
                /\ callRes.text = DecodeUnits(UnitsOfString(callArg)).text
        ELSE /\ callRes.error = "AssertionError"
             /\ callRes.text = <<>>
             /\ unitReads = {}

(***************************************************************************)
(* What the inspected memory holds, read off without the command.          *)
(***************************************************************************)
\* The threads of the VM list, in list order.
RECURSIVE ListFrom(_)
ListFrom(addr) == IF addr = 0 THEN <<>> ELSE <<addr>> \o ListFrom(threadMem[addr].next)

ThreadsOnList == ListFrom(gDvm.threadList)

MethodOfFrame(fp) == saveAreaMem[fp - 1].method

\* The frames from fp up to a null link or a null method, at most fuel of them.
RECURSIVE ChainFrom(_, _)
ChainFrom(fp, fuel) ==
    IF fp = 0 \/ fuel = 0 THEN <<>>
    ELSE IF MethodOfFrame(fp) = 0 THEN <<>>
    ELSE <<fp>> \o ChainFrom(saveAreaMem[fp - 1].prevFrame, fuel - 1)

\* The chain from fp ends (in a null link or a null method) without repeating a frame.
RECURSIVE EndsWithin(_, _)
EndsWithin(fp, fuel) ==
    IF fp = 0 THEN TRUE
    ELSE IF MethodOfFrame(fp) = 0 THEN TRUE
    ELSE IF fuel = 0 THEN FALSE
    ELSE EndsWithin(saveAreaMem[fp - 1].prevFrame, fuel - 1)

Acyclic(thread) == EndsWithin(curFrame(thread), Cardinality(FramePtrs))
ChainOf(thread) == ChainFrom(curFrame(thread), Cardinality(FramePtrs))

IsAt(line) == line.kind = "at"
IsHeader(line) == line.kind = "header"
AtMethods(str) ==
    LET ats == SelectSeq(str, IsAt) IN [i \in 1 .. Len(ats) |-> ats[i].method]
HeaderThreads(str) ==
    LET hs == SelectSeq(str, IsHeader) IN [i \in 1 .. Len(hs) |-> hs[i].self]

DecodeErrors == {"wrong currentPc value", "invalid register", "invalid object"}

\* C1: the stack walk of a thread terminates on every frame chain, a cyclic one
\* included: ThreadStackTrace.__str__ comes to its end.
C1_WalkTerminates == <>(pc \in {"done", "raised"})

\* C2: a failed lock-detail decoding (wrong instruction, invalid register, invalid
\* object) of a MONITOR thread does not propagate past that thread's block: the
\* command never ends in one of these errors.
C2_DecodeErrorContained == ~(pc = "raised" /\ err \in DecodeErrors)

\* C3: on a chain that ends without repeating a frame the walk returns, and what it
\* returns holds exactly one "at" line per frame of the chain up to the first null
\* method, in chain order from the thread's current frame.
C3_WalkEmitsChain ==
    (self_thread # 0 /\ Acyclic(self_thread)) =>
        /\ pc # "raised"
        /\ (pc = "walk" /\ jfp = 0) =>
              AtMethods(s) = [i \in 1 .. Len(ChainOf(self_thread)) |->
                                 MethodOfFrame(ChainOf(self_thread)[i])]

\* C6: in all-threads mode the report holds exactly one block per node of the
\* thread list, in list order, each block followed by a blank line.
C6_OneBlockPerThread ==
    (mode = "all" /\ pc \in {"done", "raised"}) =>
        /\ pc = "done"
        /\ HeaderThreads(printed) = ThreadsOnList
        /\ \A i \in 1 .. Len(printed) :
              IsHeader(printed[i]) =>
                 /\ i > 1 => printed[i - 1].kind = "blank"
                 /\ printed[Len(printed)].kind = "blank"

\* C7: the register slot read by _extractMonitorEnterObject is always below the
\* method's registersSize.
C7_RegisterIndexChecked ==
    \A rd \in regReads : rd[2] < methodMem[MethodOfFrame(rd[1])].registersSize

\* The strings of lines the command has built or printed.
Reports == {s, allS, printed}

\* The name a thread has in memory (a one-unit string in the memories of Init).
NameInMemory(thread) ==
    LET st == stringMem[threadMem[thread].name] IN
    [i \in 1 .. st.count |-> arrayMem[st.value].contents[st.offset + i]]

\* C8: a "waiting" annotation stands only directly after the first frame line of a
\* block (so at most once per block, and never in a block without a frame line),
\* only for a thread in MONITOR, WAIT or TIMED_WAIT status and with a resolved
\* object (for WAIT/TIMED_WAIT the non-null obj of the non-null waitMonitor); the
\* monitor-enter decoder runs only for MONITOR threads.
C8_AnnotationPlacement ==
    /\ \A str \in Reports : \A i \in 1 .. Len(str) :
          str[i].kind = "waiting" =>
             /\ i >= 3
             /\ str[i - 1].kind = "at"
             /\ str[i - 2].kind = "header"
             /\ str[i].obj # 0
             /\ LET th == threadMem[str[i - 2].self] IN
                /\ th.status \in {2, 3, 4}
                /\ th.status = 3 => str[i].detail = "to lock"
                /\ th.status \in {2, 4} =>
                      /\ str[i].detail = "on"
                      /\ th.waitMonitor # 0
                      /\ monitorMem[th.waitMonitor].obj = str[i].obj
    /\ \A th \in decodeCalls : threadMem[th].status = 3

\* A printed block whose annotation is followed by a further frame line.
C8_Witness ==
    /\ pc = "done"
    /\ \E i \in 1 .. Len(printed) :
          /\ printed[i].kind = "waiting"
          /\ i < Len(printed)
          /\ printed[i + 1].kind = "at"

\* C9: the holder named by a "waiting to lock" annotation is the first thread of
\* the VM list whose threadId is the owner id of the object's lock word; the
\* annotation names no holder when that id is 0 or no listed thread has it.
C9_LockHolderNamed ==
    \A str \in Reports : \A i \in 1 .. Len(str) :
       (str[i].kind = "waiting" /\ str[i].detail = "to lock") =>
          LET id == OwnerIdOfWord(objectMem[str[i].obj].lock)
              list == ThreadsOnList
              hits == {j \in 1 .. Len(list) : threadMem[list[j]].threadId = id}
          IN IF id = 0 \/ hits = {}
             THEN ~str[i].held
             ELSE LET j == CHOOSE k \in hits : \A m \in hits : k <= m IN
                  /\ str[i].held
                  /\ str[i].tid = id
                  /\ str[i].name = NameInMemory(list[j])

\* Thread 2, blocked in MONITOR, is reported as waiting to lock an object held by
\* thread 1.
C9_Witness ==
    /\ pc = "done"
    /\ \E i \in 3 .. Len(printed) :
          /\ printed[i].kind = "waiting"
          /\ printed[i].detail = "to lock"
          /\ printed[i - 2].self = 2
          /\ printed[i].held
          /\ printed[i].tid = threadMem[1].threadId
          /\ printed[i].name = NameInMemory(1)

====
